---- MODULE Spec2Model ----
(***************************************************************************)
(* Model of the profile-generation pipeline of user-profile-analyzer:      *)
(* UserWorkflowProfileGenerator (generate_profile.py) run as one batch     *)
(* over the flow_task / user / flow / flow_details stores, writing the     *)
(* user_workflow_profile collection.                                       *)
(*                                                                         *)
(* Python values are encoded as follows.  A dict is a function whose       *)
(* domain is the set of keys that are present.  None is one of three       *)
(* markers, one per type of the slot it sits in (TLC cannot compare values *)
(* of different types): None for strings and opaque scalars, NoneList for  *)
(* lists, NoneDict for dicts.  A datetime is [day, sec].                   *)
(***************************************************************************)
EXTENDS Integers, Sequences, FiniteSets, TLC

\* ------------------------------------------------------------------ bounds
NumUsers == 3
Concurrency == 2
MaxDeletes == 1

\* user identifiers are strings, as in the stores
UserId(i) == "u" \o ToString(i)
Users == {UserId(i) : i \in 1..NumUsers}

\* ------------------------------------------------------- python encodings
None == "<None>"
NoneList == <<[py |-> "None"]>>
NoneDict == [py |-> "None"]
EmptyDict == [k \in {} |-> None]
TypeError == "<TypeError>"

Get(d, k, default) == IF k \in DOMAIN d THEN d[k] ELSE default

\* variant: `is None` in place of `not`
FalsyListNoneOnly(l) == l = NoneList

\* truthiness of a list-or-None value (`if not nodes`, `nodes or []`)
FalsyList(l) == l = NoneList \/ l = <<>>

\* truthiness of a string-or-None value (`if not user_email`)
FalsyStr(s) == s = None \/ s = ""

\* str(k) as used by an f-string
StrPy(k) == IF k = None THEN "None" ELSE k

\* The strings that occur as node types, in ascending code-point order
\* (the order Python's sorted() gives to str keys).
StrOrder ==
    <<"audioInput", "empty", "imageInput", "imageMaker", "textInput",
      "unknown", "videoInput", "videoMaker">>

StrRank(s) == CHOOSE i \in 1..Len(StrOrder) : StrOrder[i] = s

RECURSIVE SortedStrs(_)
SortedStrs(S) ==
    IF S = {} THEN <<>>
    ELSE LET m == CHOOSE x \in S : \A y \in S : StrRank(x) <= StrRank(y)
         IN <<m>> \o SortedStrs(S \ {m})

RECURSIVE Join(_, _)
Join(sep, parts) ==
    IF parts = <<>> THEN ""
    ELSE IF Len(parts) = 1 THEN parts[1]
    ELSE parts[1] \o sep \o Join(sep, Tail(parts))

\* --------------------------------------------------------------- datetime
start_date == [day |-> 2, sec |-> 0]
end_date == [day |-> 5, sec |-> 1]

DtLE(a, b) == a.day < b.day \/ (a.day = b.day /\ a.sec <= b.sec)
InRange(t) == DtLE(start_date, t) /\ DtLE(t, end_date)
Date(t) == t.day

\* ------------------------------------------------- program configuration
top_n == 15
INPUT_NODE_TYPES == {"textInput", "imageInput", "videoInput", "audioInput"}
FlowListLimit == 100

\* ------------------------------------------------------ Fingerprint Engine
NodeTypes(nodes) == [i \in 1..Len(nodes) |-> Get(nodes[i], "type", "unknown")]

TypeCounts(nodes) ==
    LET types == NodeTypes(nodes)
        keys == {types[i] : i \in 1..Len(types)}
    IN [k \in keys |-> Cardinality({i \in 1..Len(types) : types[i] = k})]

\* the keys of type_counts in insertion order (first occurrence)
RECURSIVE FirstSeen(_)
FirstSeen(types) ==
    IF types = <<>> THEN <<>>
    ELSE LET d == FirstSeen(SubSeq(types, 1, Len(types) - 1))
             x == types[Len(types)]
         IN IF \E i \in 1..Len(d) : d[i] = x THEN d ELSE Append(d, x)

\* variant: type_counts.items() joined without sorted()
generate_workflow_signature_unsorted(nodes) ==
    IF FalsyList(nodes) THEN "empty"
    ELSE LET type_counts == TypeCounts(nodes)
             ks == FirstSeen(NodeTypes(nodes))
         IN Join(",", [i \in 1..Len(ks) |->
                         StrPy(ks[i]) \o ":" \o ToString(type_counts[ks[i]])])

\* variant: the sorted type names joined, without their counts
generate_workflow_signature_names(nodes) ==
    IF FalsyList(nodes) THEN "empty"
    ELSE LET keys == DOMAIN TypeCounts(nodes)
         IN IF None \in keys
            THEN IF Cardinality(keys) > 1 THEN TypeError ELSE StrPy(None)
            ELSE Join(",", SortedStrs(keys))

generate_workflow_signature(nodes) ==
    IF FalsyList(nodes) THEN "empty"
    ELSE LET type_counts == TypeCounts(nodes)
             keys == DOMAIN type_counts
         IN IF None \in keys
            THEN \* sorted() compares None with a str key
                 IF Cardinality(keys) > 1 THEN TypeError
                 ELSE StrPy(None) \o ":" \o ToString(type_counts[None])
            ELSE LET ks == SortedStrs(keys)
                 IN Join(",", [i \in 1..Len(ks) |->
                                 ks[i] \o ":" \o ToString(type_counts[ks[i]])])

\* list(set(...)): the order of the list is the set's iteration order, which
\* the model does not fix; node_types is kept as the set.
extract_node_types(nodes) ==
    IF FalsyList(nodes) THEN {}
    ELSE {Get(nodes[i], "type", "unknown") : i \in 1..Len(nodes)}

\* ------------------------------------------------------ Topology Sanitizer
\* None.get / None.items: node["data"] present with a null value
CleanNodeRaises(node) == Get(node, "data", EmptyDict) = NoneDict

\* variant: only results is removed from an input node's payload, and a
\* videoInput node is not taken for an input node
clean_node_data_lax(node) ==
    LET node_type == Get(node, "type", "unknown")
        node_data == Get(node, "data", EmptyDict)
        is_input == node_type \in INPUT_NODE_TYPES \ {"videoInput"}
    IN [id |-> Get(node, "id", None),
        type |-> node_type,
        label |-> Get(node_data, "label", None),
        isInputNode |-> is_input,
        data |-> IF is_input
                 THEN [k \in DOMAIN node_data \ {"results"} |-> node_data[k]]
                 ELSE [prompt |-> Get(node_data, "inputText", None),
                       selectedModels |-> Get(node_data, "selectedModels", None),
                       selectedVoice |-> Get(node_data, "selectedVoice", None),
                       aspectRatio |-> Get(node_data, "aspectRatio", None)]]

clean_node_data(node) ==
    LET node_type == Get(node, "type", "unknown")
        node_data == Get(node, "data", EmptyDict)
    IN [id |-> Get(node, "id", None),
        type |-> node_type,
        label |-> Get(node_data, "label", None),
        isInputNode |-> node_type \in INPUT_NODE_TYPES,
        data |-> IF node_type \in INPUT_NODE_TYPES
                 THEN [k \in DOMAIN node_data \ {"results", "model_options"}
                         |-> node_data[k]]
                 ELSE [prompt |-> Get(node_data, "inputText", None),
                       selectedModels |-> Get(node_data, "selectedModels", None),
                       selectedVoice |-> Get(node_data, "selectedVoice", None),
                       aspectRatio |-> Get(node_data, "aspectRatio", None)]]

clean_edge_data(edge) ==
    [id |-> Get(edge, "id", None),
     source |-> Get(edge, "source", None),
     target |-> Get(edge, "target", None),
     sourceHandle |-> Get(edge, "sourceHandle", None),
     targetHandle |-> Get(edge, "targetHandle", None)]

OrEmpty(l) == IF FalsyList(l) THEN <<>> ELSE l

TopologyRaises(nodes) ==
    \E i \in 1..Len(OrEmpty(nodes)) : CleanNodeRaises(OrEmpty(nodes)[i])

\* variant: edges without a sourceHandle are left out
clean_workflow_topology_wired(nodes, edges) ==
    LET wired == SelectSeq(OrEmpty(edges), LAMBDA e : "sourceHandle" \in DOMAIN e)
    IN [nodes |-> [i \in 1..Len(OrEmpty(nodes)) |-> clean_node_data(OrEmpty(nodes)[i])],
        edges |-> [i \in 1..Len(wired) |-> clean_edge_data(wired[i])]]

clean_workflow_topology(nodes, edges) ==
    [nodes |-> [i \in 1..Len(OrEmpty(nodes)) |-> clean_node_data(OrEmpty(nodes)[i])],
     edges |-> [i \in 1..Len(OrEmpty(edges)) |-> clean_edge_data(OrEmpty(edges)[i])]]

\* ------------------------------------------------------------- store data
\* Contents of the external stores when the batch starts.  The flow, flow
\* details and user stores are only read by the pipeline.
NodesA ==
    <<[id |-> "n1", type |-> "imageInput",
       data |-> [label |-> "photo", imageUrl |-> "s3://in.png", results |-> "r"]],
      [id |-> "n2", type |-> "imageMaker",
       data |-> [label |-> "make", inputText |-> "a cat", selectedModels |-> "m1",
                 model_options |-> "opts"]]>>

NodesA2 ==
    <<[id |-> "m7", type |-> "imageMaker",
       data |-> [label |-> "make2", inputText |-> "a dog", aspectRatio |-> "16:9"]],
      [id |-> "m8", type |-> "imageInput", data |-> [label |-> "photo2"]]>>

NodesB ==
    <<[id |-> "t1", type |-> "textInput",
       data |-> [label |-> "text", inputText |-> "hello"]]>>

EdgesA ==
    <<[id |-> "e1", source |-> "n1", target |-> "n2",
       sourceHandle |-> "out", targetHandle |-> "in"]>>

Dt(d, s) == [day |-> d, sec |-> s]

FlowTask(u, k, nodes, edges, t) ==
    [user_id |-> u, flow_task_id |-> "t-" \o u \o "-" \o ToString(k),
     nodes |-> nodes, edges |-> edges, status |-> "success", cost |-> 1,
     created_at |-> t]

\* user 1: three runs, two signatures; user 2: one run inside the window and
\* one after it; user 3: one run on the last second of the window
TasksOf(i) ==
    CASE i = 1 -> <<FlowTask("u1", 1, NodesB, <<>>, Dt(2, 0)),
                    FlowTask("u1", 2, NodesA, EdgesA, Dt(3, 0)),
                    FlowTask("u1", 3, NodesA2, <<>>, Dt(3, 1))>>
      [] i = 2 -> <<FlowTask("u2", 1, NodesB, <<>>, Dt(4, 0)),
                    FlowTask("u2", 2, NodesA, EdgesA, Dt(9, 0))>>
      [] i = 3 -> <<FlowTask("u3", 1, NodesA, EdgesA, Dt(5, 1))>>
      [] OTHER -> <<FlowTask(UserId(i), 1, NodesB, <<>>, Dt(3, 0))>>

RECURSIVE AllTasks(_)
AllTasks(n) == IF n = 0 THEN <<>> ELSE AllTasks(n - 1) \o TasksOf(n)

\* the last run has an empty user_id
flow_task0 == AllTasks(NumUsers) \o <<FlowTask("", 1, NodesB, <<>>, Dt(3, 0))>>

EmailOf(u) == u \o "@example.com"

\* every third user has no document in the user store
HasUserDoc(i) == i % 3 # 0

RECURSIVE UserDocs(_)
UserDocs(n) ==
    IF n = 0 THEN <<>>
    ELSE UserDocs(n - 1) \o
         (IF HasUserDoc(n)
          THEN <<[user_id |-> UserId(n), user_email |-> EmailOf(UserId(n))]>> ELSE <<>>)

user_collection == UserDocs(NumUsers)

flow_collection ==
    <<[user_id |-> "u1", flow_id |-> "f1", nodes |-> NodesA2],
      [user_id |-> "u2", flow_id |-> "f2", nodes |-> NodesB]>>

flow_details_collection ==
    <<[flow_id |-> "f1", project_name |-> "Cat maker",
       snapshot |-> [snapshot_url |-> "s3://f1.png"]]>>

\* ---------------------------------------------------------- store queries
\* equality match of a query filter: a null operand also matches a missing key
MatchEq(d, k, v) ==
    IF v = None THEN k \notin DOMAIN d \/ d[k] = None
    ELSE k \in DOMAIN d /\ d[k] = v

Take(s, n) == SubSeq(s, 1, IF Len(s) < n THEN Len(s) ELSE n)

Project(d, keys) == [k \in DOMAIN d \cap keys |-> d[k]]

\* aggregate: $match created_at in range, $group by user_id; falsy ids dropped
\* the order of the groups is the store's; the model lists them in the order
\* their first run is stored
RECURSIVE Distinct(_)
Distinct(s) ==
    IF s = <<>> THEN <<>>
    ELSE LET d == Distinct(SubSeq(s, 1, Len(s) - 1))
             x == s[Len(s)]
         IN IF \E i \in 1..Len(d) : d[i] = x THEN d ELSE Append(d, x)

get_users_with_runs_in_range(coll) ==
    LET hits == SelectSeq(coll, LAMBDA d : InRange(d.created_at))
        ids == Distinct([i \in 1..Len(hits) |-> Get(hits[i], "user_id", None)])
    IN SelectSeq(ids, LAMBDA id : ~FalsyStr(id))

get_user_email(user_id) ==
    LET us == SelectSeq(user_collection, LAMBDA d : d.user_id = user_id)
    IN IF us = <<>> THEN None ELSE Get(us[1], "user_email", None)

get_user_flow_tasks(coll, user_id) ==
    LET hits == SelectSeq(coll, LAMBDA d : d.user_id = user_id /\ InRange(d.created_at))
    IN [i \in 1..Len(hits) |->
          Project(hits[i], {"flow_task_id", "nodes", "edges", "status", "cost",
                            "created_at"})]

NoFlowInfo == [flow_id |-> None, workflow_name |-> None, snapshot_url |-> None]
FlowInfoError == [flow_id |-> TypeError, workflow_name |-> None, snapshot_url |-> None]

SnapshotUrl(details) ==
    LET snap == Get(details, "snapshot", NoneDict)
    IN IF snap = NoneDict \/ DOMAIN snap = {} THEN None
       ELSE Get(snap, "snapshot_url", None)

RECURSIVE ScanFlows(_, _)
ScanFlows(flows, signature) ==
    IF flows = <<>> THEN NoFlowInfo
    ELSE LET flow == Head(flows)
             flow_sig == generate_workflow_signature(Get(flow, "nodes", <<>>))
             flow_id == Get(flow, "flow_id", None)
             details == SelectSeq(flow_details_collection,
                                  LAMBDA d : MatchEq(d, "flow_id", flow_id))
         IN IF flow_sig = TypeError THEN FlowInfoError
            ELSE IF flow_sig = signature /\ details # <<>>
            THEN [flow_id |-> flow_id,
                  workflow_name |-> Get(details[1], "project_name", ""),
                  snapshot_url |-> SnapshotUrl(details[1])]
            ELSE ScanFlows(Tail(flows), signature)

find_matching_flow(signature, user_id) ==
    ScanFlows(Take(SelectSeq(flow_collection, LAMBDA f : MatchEq(f, "user_id", user_id)),
                   FlowListLimit),
              signature)

\* -------------------------------------------------------------- Aggregator
DefaultStats(sig) ==
    [signature |-> sig, count |-> 0, sample_nodes |-> NoneList,
     sample_edges |-> NoneList, node_types |-> {}, flow_task_id |-> None]

\* variant: the count is set to 1 instead of incremented
AddTaskCountOnce(stats, task) ==
    LET nodes == Get(task, "nodes", <<>>)
        signature == generate_workflow_signature(nodes)
    IN IF \E i \in 1..Len(stats) : stats[i].signature = signature
       THEN stats
       ELSE Append(stats, [signature |-> signature, count |-> 1,
                           sample_nodes |-> nodes,
                           sample_edges |-> Get(task, "edges", <<>>),
                           node_types |-> extract_node_types(nodes),
                           flow_task_id |-> Get(task, "flow_task_id", None)])

\* one iteration of the loop over flow_tasks; stats is the dict in insertion
\* order, one entry per signature
AddTask(stats, task) ==
    LET nodes == Get(task, "nodes", <<>>)
        edges == Get(task, "edges", <<>>)
        signature == generate_workflow_signature(nodes)
        st0 == IF \E i \in 1..Len(stats) : stats[i].signature = signature
               THEN stats ELSE Append(stats, DefaultStats(signature))
        i == CHOOSE j \in 1..Len(st0) : st0[j].signature = signature
        g1 == [st0[i] EXCEPT !.count = @ + 1]
        g2 == IF g1.sample_nodes = NoneList
              THEN [g1 EXCEPT !.sample_nodes = nodes,
                              !.sample_edges = edges,
                              !.node_types = extract_node_types(nodes),
                              !.flow_task_id = Get(task, "flow_task_id", None)]
              ELSE g1
    IN [st0 EXCEPT ![i] = g2]

RECURSIVE workflow_stats(_)
workflow_stats(tasks) ==
    IF tasks = <<>> THEN <<>>
    ELSE AddTask(workflow_stats(SubSeq(tasks, 1, Len(tasks) - 1)), tasks[Len(tasks)])

\* generate_workflow_signature raises inside the loop
AggregateRaises(tasks) ==
    \E i \in 1..Len(tasks) :
        generate_workflow_signature(Get(tasks[i], "nodes", <<>>)) = TypeError

\* variant: a sort that puts the later of two equal counts first
InsertByCountLastFirst(sorted, g) ==
    LET k == Cardinality({i \in 1..Len(sorted) : sorted[i].count > g.count})
    IN SubSeq(sorted, 1, k) \o <<g>> \o SubSeq(sorted, k + 1, Len(sorted))

\* sorted(..., key=count, reverse=True) is stable: equal counts keep their
\* insertion order
InsertByCount(sorted, g) ==
    LET k == Cardinality({i \in 1..Len(sorted) : sorted[i].count >= g.count})
    IN SubSeq(sorted, 1, k) \o <<g>> \o SubSeq(sorted, k + 1, Len(sorted))

RECURSIVE SortByCount(_)
SortByCount(stats) ==
    IF stats = <<>> THEN <<>>
    ELSE InsertByCount(SortByCount(SubSeq(stats, 1, Len(stats) - 1)), stats[Len(stats)])

\* variant: the sorted list without the [:top_n] slice
sorted_workflows_all(tasks) == SortByCount(workflow_stats(tasks))

sorted_workflows(tasks) == Take(SortByCount(workflow_stats(tasks)), top_n)

WorkflowEntry(rank, g, flow_info) ==
    [rank |-> rank,
     flow_id |-> flow_info.flow_id,
     flow_task_id |-> g.flow_task_id,
     workflow_name |-> flow_info.workflow_name,
     signature |-> g.signature,
     run_count |-> g.count,
     node_types |-> g.node_types,
     snapshot_url |-> flow_info.snapshot_url,
     topology |-> clean_workflow_topology(g.sample_nodes, g.sample_edges)]

\* variant: every record with a timestamp counts as a day of its own
active_days_per_run(tasks) ==
    Cardinality({j \in 1..Len(tasks) : "created_at" \in DOMAIN tasks[j]})

active_days(tasks) ==
    Cardinality({Date(tasks[i].created_at) :
                   i \in {j \in 1..Len(tasks) : "created_at" \in DOMAIN tasks[j]}})

BuildProfile(user_id, email, tasks, top, now) ==
    [user_id |-> user_id,
     user_email |-> email,
     stats |-> [total_runs |-> Len(tasks),
                active_days |-> active_days(tasks),
                period |-> "2024-10-01 ~ 2025-01-27"],
     top_workflows |-> top,
     ai_profile |-> None,
     payment_stats |-> None,
     created_at |-> now,
     updated_at |-> now]

\* variant: enumerate(sorted_workflows) without the start of 1
TopWorkflowsFrom0(tasks, user_id) ==
    LET sw == sorted_workflows(tasks)
    IN [r \in 1..Len(sw) |->
          WorkflowEntry(r - 1, sw[r], find_matching_flow(sw[r].signature, user_id))]

\* the whole top_workflows list of a record set (the loop over ranks, folded)
TopWorkflows(tasks, user_id) ==
    LET sw == sorted_workflows(tasks)
    IN [r \in 1..Len(sw) |->
          WorkflowEntry(r, sw[r], find_matching_flow(sw[r].signature, user_id))]

\* ----------------------------------------------------------- profile store
\* $set: every key of the update replaces the document's key, other keys stay
SetFields(doc, set) ==
    [k \in DOMAIN doc \cup DOMAIN set |-> IF k \in DOMAIN set THEN set[k] ELSE doc[k]]

MatchingDocs(coll, user_id) == {i \in 1..Len(coll) : MatchEq(coll[i], "user_id", user_id)}

\* variant: insert_one in place of the upsert
save_profile_insert(coll, prof) ==
    Append(coll, SetFields(("_id" :> Len(coll) + 1) @@ [user_id |-> prof.user_id], prof))

\* variant: the update sets stats and the timestamps but not top_workflows
save_profile_partial(coll, prof) ==
    LET hits == MatchingDocs(coll, prof.user_id)
        part == [k \in DOMAIN prof \ {"top_workflows"} |-> prof[k]]
    IN IF hits # {}
       THEN LET i == CHOOSE j \in hits : \A k \in hits : j <= k
            IN [coll EXCEPT ![i] = SetFields(@, part)]
       ELSE Append(coll, SetFields(("_id" :> Len(coll) + 1) @@ [user_id |-> prof.user_id],
                                   part))

\* variant: an existing document keeps its created_at and the keys of its
\* stats that the new profile does not have
save_profile_merge(coll, prof) ==
    LET hits == MatchingDocs(coll, prof.user_id)
    IN IF hits # {}
       THEN LET i == CHOOSE j \in hits : \A k \in hits : j <= k
            IN [coll EXCEPT ![i] =
                  SetFields(@, [prof EXCEPT !.stats = SetFields(coll[i].stats, prof.stats),
                                            !.created_at = coll[i].created_at])]
       ELSE Append(coll, SetFields(("_id" :> Len(coll) + 1) @@ [user_id |-> prof.user_id],
                                   prof))

\* update_one({"user_id": id}, {"$set": profile}, upsert=True)
save_profile(coll, prof) ==
    LET hits == MatchingDocs(coll, prof.user_id)
    IN IF hits # {}
       THEN LET i == CHOOSE j \in hits : \A k \in hits : j <= k
            IN [coll EXCEPT ![i] = SetFields(@, prof)]
       ELSE Append(coll, SetFields(("_id" :> Len(coll) + 1) @@ [user_id |-> prof.user_id],
                                   prof))

\* documents left by an earlier run and enriched since: odd users have one
HasPriorDoc(i) == i % 2 = 1

PriorDoc(i) ==
    LET u == UserId(i)
        old == Take(get_user_flow_tasks(AllTasks(NumUsers), u), 1)
        prof == BuildProfile(u, EmailOf(u), old, TopWorkflows(old, u), 0)
    IN [prof EXCEPT !.ai_profile = "ai:creator", !.payment_stats = "pay:pro"]

RECURSIVE PriorDocs(_, _)
PriorDocs(n, coll) ==
    IF n = 0 THEN coll
    ELSE LET c == PriorDocs(n - 1, coll)
         IN IF HasPriorDoc(n) THEN save_profile(c, PriorDoc(n)) ELSE c

profile_collection0 == PriorDocs(NumUsers, <<>>)

\* ------------------------------------------------------------------ state
VARIABLES
    flow_task,            \* execution-log store (external)
    profile_collection,   \* user_workflow_profile collection
    deletes,              \* number of upstream removals so far
    clock,                \* datetime.now()
    semaphore,            \* value of asyncio.Semaphore(concurrency)
    run_pc,               \* position of run()
    user_ids,             \* run(): discovered users
    results,              \* run(): task results, in completion order
    success_count, skip_count, error_count,
    pc,                   \* per user: position of process_user
    user_email,           \* per user: local of generate_user_profile
    flow_tasks,           \* per user: local of generate_user_profile
    top_workflows,        \* per user: local of generate_user_profile
    profile,              \* per user: local of process_user
    result,               \* per user: value returned by process_user
    stages,               \* per user: the stages completed, in order
    fn,                   \* function under direct application, and its outcome
    arg,                  \* its argument
    ret,                  \* its return value
    ret0                  \* the return value of its first application

stores == <<flow_task, profile_collection, deletes, clock>>
runv == <<run_pc, user_ids, results>>
counts == <<success_count, skip_count, error_count>>
locals == <<user_email, flow_tasks, top_workflows, profile>>
batch == <<stores, semaphore, runv, counts, pc, locals, result, stages>>
fnv == <<fn, arg, ret, ret0>>
vars == <<batch, fnv>>

NoProfile == [user_id |-> None]

\* only runs outside the window: discovery finds nobody
flow_task_stale == <<FlowTask("u1", 9, NodesB, <<>>, Dt(9, 0))>>

\* no function is applied on its own during a batch
FnIdle ==
    /\ fn = "none"
    /\ arg = <<>>
    /\ ret = ""
    /\ ret0 = ""

\* the generator after construction, before run() is called
Constructed ==
    /\ profile_collection = profile_collection0
    /\ deletes = 0
    /\ clock = 1
    /\ semaphore = Concurrency
    /\ run_pc = "start"
    /\ user_ids = <<>>
    /\ results = <<>>
    /\ success_count = 0
    /\ skip_count = 0
    /\ error_count = 0
    /\ pc = [u \in Users |-> "none"]
    /\ user_email = [u \in Users |-> None]
    /\ flow_tasks = [u \in Users |-> <<>>]
    /\ top_workflows = [u \in Users |-> <<>>]
    /\ profile = [u \in Users |-> NoProfile]
    /\ result = [u \in Users |-> None]
    /\ stages = [u \in Users |-> <<>>]

Init ==
    /\ FnIdle
    /\ flow_task \in {flow_task0, flow_task_stale}
    /\ Constructed

Discovered == {user_ids[i] : i \in 1..Len(user_ids)}
Holding == {"get_user_email", "get_user_flow_tasks", "find_matching_flow", "save_profile"}
InFlight == {u \in Users : pc[u] \in Holding}

\* --------------------------------------------------------------- run(), 1
\* user_ids = await get_users_with_runs_in_range(); one task per user
Discover ==
    /\ run_pc = "start"
    /\ user_ids' = get_users_with_runs_in_range(flow_task)
    /\ run_pc' = IF user_ids' = <<>> THEN "returned" ELSE "gather"
    /\ pc' = [u \in Users |->
                IF \E i \in 1..Len(user_ids') : user_ids'[i] = u THEN "pending" ELSE "none"]
    /\ UNCHANGED <<stores, semaphore, results, counts, locals, result, stages>>
    /\ UNCHANGED fnv

\* variant: the failure is counted as an error before it is raised again
DiscoverRaiseCounted ==
    /\ run_pc = "start"
    /\ run_pc' = "raised"
    /\ error_count' = error_count + 1
    /\ UNCHANGED <<stores, semaphore, user_ids, results, success_count, skip_count, pc,
                   locals, result, stages>>
    /\ UNCHANGED fnv

\* the discovery query raises: run() propagates it
DiscoverRaise ==
    /\ run_pc = "start"
    /\ run_pc' = "raised"
    /\ UNCHANGED <<stores, semaphore, user_ids, results, counts, pc, locals, result,
                   stages>>
    /\ UNCHANGED fnv

\* ------------------------------------------------------------ process_user
\* variant: the skip path returns without releasing the slot
FinishLeak(u, res) ==
    /\ result' = [result EXCEPT ![u] = res]
    /\ pc' = [pc EXCEPT ![u] = "done"]
    /\ semaphore' = IF res = "skip" THEN semaphore ELSE semaphore + 1
    /\ results' = Append(results, res)
    /\ UNCHANGED <<run_pc, user_ids>>

\* leaving `async with self.semaphore` with the value res.  as_completed
\* hands the finished tasks to run() in the order they finish, and nothing
\* reads results before the loop over as_completed has ended, so the
\* results.append(result) of run() is taken with the step that finishes the task
Finish(u, res) ==
    /\ result' = [result EXCEPT ![u] = res]
    /\ pc' = [pc EXCEPT ![u] = "done"]
    /\ semaphore' = semaphore + 1
    /\ results' = Append(results, res)
    /\ UNCHANGED <<run_pc, user_ids>>

\* variant: the task starts without waiting for a free slot
AcquireNoLimit(u) ==
    /\ run_pc = "gather"
    /\ pc[u] = "pending"
    /\ semaphore' = semaphore - 1
    /\ pc' = [pc EXCEPT ![u] = "get_user_email"]
    /\ stages' = [stages EXCEPT ![u] = Append(@, "acquire")]
    /\ UNCHANGED <<stores, runv, counts, locals, result>>
    /\ UNCHANGED fnv

\* async with self.semaphore: acquire, then call get_user_email
Acquire(u) ==
    /\ run_pc = "gather"
    /\ pc[u] = "pending"
    /\ semaphore > 0
    /\ semaphore' = semaphore - 1
    /\ pc' = [pc EXCEPT ![u] = "get_user_email"]
    /\ stages' = [stages EXCEPT ![u] = Append(@, "acquire")]
    /\ UNCHANGED <<stores, runv, counts, locals, result>>
    /\ UNCHANGED fnv

\* variant: the test on user_email inverted
GetUserEmailInverted(u) ==
    /\ pc[u] = "get_user_email"
    /\ LET email == get_user_email(u)
       IN /\ user_email' = [user_email EXCEPT ![u] = email]
          /\ IF ~FalsyStr(email)
             THEN Finish(u, "skip")
             ELSE /\ pc' = [pc EXCEPT ![u] = "get_user_flow_tasks"]
                  /\ UNCHANGED <<semaphore, result, runv>>
    /\ UNCHANGED <<stores, counts, flow_tasks, top_workflows, profile, stages>>
    /\ UNCHANGED fnv

\* get_user_email returns
GetUserEmail(u) ==
    /\ pc[u] = "get_user_email"
    /\ LET email == get_user_email(u)
       IN /\ user_email' = [user_email EXCEPT ![u] = email]
          /\ IF FalsyStr(email)
             THEN Finish(u, "skip")
             ELSE /\ pc' = [pc EXCEPT ![u] = "get_user_flow_tasks"]
                  /\ UNCHANGED <<semaphore, result, runv>>
    /\ UNCHANGED <<stores, counts, flow_tasks, top_workflows, profile, stages>>
    /\ UNCHANGED fnv

\* variant: no except clause, the exception reaches run()
StoreRaisePropagates(u) ==
    /\ pc[u] \in {"get_user_email", "get_user_flow_tasks", "find_matching_flow"}
    /\ result' = [result EXCEPT ![u] = "error: " \o pc[u]]
    /\ pc' = [pc EXCEPT ![u] = "done"]
    /\ semaphore' = semaphore + 1
    /\ run_pc' = "raised"
    /\ UNCHANGED <<stores, user_ids, results, counts, locals, stages>>
    /\ UNCHANGED fnv

\* variant: after an exception the task gives its slot back and starts over
StoreRaiseRetry(u) ==
    /\ pc[u] \in {"get_user_email", "get_user_flow_tasks", "find_matching_flow"}
    /\ pc' = [pc EXCEPT ![u] = "pending"]
    /\ semaphore' = semaphore + 1
    /\ stages' = [stages EXCEPT ![u] = <<>>]
    /\ top_workflows' = [top_workflows EXCEPT ![u] = <<>>]
    /\ UNCHANGED <<stores, runv, counts, user_email, flow_tasks, profile, result>>
    /\ UNCHANGED fnv

\* a store call of process_user raises: except Exception -> "error: ..."
StoreRaise(u) ==
    /\ pc[u] \in {"get_user_email", "get_user_flow_tasks", "find_matching_flow"}
    /\ Finish(u, "error: " \o pc[u])
    /\ UNCHANGED <<stores, counts, locals, stages>>
    /\ UNCHANGED fnv

\* get_user_flow_tasks returns; the aggregation loop and the sort follow
\* without suspension, then the first find_matching_flow is awaited
GetUserFlowTasks(u) ==
    /\ pc[u] = "get_user_flow_tasks"
    /\ LET tasks == get_user_flow_tasks(flow_task, u)
       IN /\ flow_tasks' = [flow_tasks EXCEPT ![u] = tasks]
          /\ IF FalsyList(tasks)
             THEN /\ Finish(u, "skip")
                  /\ stages' = [stages EXCEPT ![u] = Append(@, "fetch")]
                  /\ UNCHANGED <<clock, profile>>
             ELSE IF AggregateRaises(tasks)
             THEN /\ Finish(u, "error: TypeError")
                  /\ stages' = [stages EXCEPT ![u] = Append(@, "fetch")]
                  /\ UNCHANGED <<clock, profile>>
             ELSE IF sorted_workflows(tasks) = <<>>
             THEN /\ profile' = [profile EXCEPT ![u] =
                                   BuildProfile(u, user_email[u], tasks, <<>>, clock)]
                  /\ clock' = clock + 1
                  /\ pc' = [pc EXCEPT ![u] = "save_profile"]
                  /\ stages' = [stages EXCEPT ![u] = @ \o <<"fetch", "aggregate">>]
                  /\ UNCHANGED <<semaphore, result, runv>>
             ELSE /\ pc' = [pc EXCEPT ![u] = "find_matching_flow"]
                  /\ stages' = [stages EXCEPT ![u] = Append(@, "fetch")]
                  /\ UNCHANGED <<semaphore, result, runv, clock, profile>>
    /\ UNCHANGED <<flow_task, profile_collection, deletes, counts, user_email,
                   top_workflows>>
    /\ UNCHANGED fnv

\* find_matching_flow returns for the next rank; the entry is appended; after
\* the last rank the profile document is built
FindMatchingFlow(u) ==
    /\ pc[u] = "find_matching_flow"
    /\ LET sw == sorted_workflows(flow_tasks[u])
           rank == Len(top_workflows[u]) + 1
           flow_info == find_matching_flow(sw[rank].signature, u)
           top == Append(top_workflows[u], WorkflowEntry(rank, sw[rank], flow_info))
       IN IF flow_info = FlowInfoError \/ TopologyRaises(sw[rank].sample_nodes)
          THEN /\ Finish(u, "error: " \o
                            (IF flow_info = FlowInfoError THEN "TypeError"
                             ELSE "AttributeError"))
               /\ UNCHANGED <<clock, top_workflows, profile, stages>>
          ELSE /\ top_workflows' = [top_workflows EXCEPT ![u] = top]
               /\ UNCHANGED <<semaphore, result, runv>>
               /\ IF rank = Len(sw)
                  THEN /\ profile' = [profile EXCEPT ![u] =
                                        BuildProfile(u, user_email[u], flow_tasks[u],
                                                     top, clock)]
                       /\ clock' = clock + 1
                       /\ pc' = [pc EXCEPT ![u] = "save_profile"]
                       /\ stages' = [stages EXCEPT ![u] = Append(@, "aggregate")]
                  ELSE UNCHANGED <<clock, profile, pc, stages>>
    /\ UNCHANGED <<flow_task, profile_collection, deletes, counts, user_email,
                   flow_tasks>>
    /\ UNCHANGED fnv

\* variant: the document is written inside the loop over ranks, from what
\* has been built so far
SaveProfileEarly(u) ==
    /\ pc[u] \in {"find_matching_flow", "save_profile"}
    /\ profile_collection' =
          save_profile(profile_collection,
                       IF pc[u] = "save_profile" THEN profile[u]
                       ELSE BuildProfile(u, user_email[u], flow_tasks[u],
                                         top_workflows[u], clock))
    /\ Finish(u, "success")
    /\ stages' = [stages EXCEPT ![u] = Append(@, "persist")]
    /\ UNCHANGED <<flow_task, deletes, clock, counts, locals>>
    /\ UNCHANGED fnv

\* variant: the profile is kept in one field shared by all tasks, and the
\* task saves the profile built last
SaveProfileShared(u) ==
    /\ pc[u] = "save_profile"
    /\ LET built == {v \in Users : profile[v] # NoProfile}
           last == CHOOSE v \in built :
                      \A w \in built : profile[w].created_at <= profile[v].created_at
       IN profile_collection' = save_profile(profile_collection, profile[last])
    /\ Finish(u, "success")
    /\ stages' = [stages EXCEPT ![u] = Append(@, "persist")]
    /\ UNCHANGED <<flow_task, deletes, clock, counts, locals>>
    /\ UNCHANGED fnv

\* save_profile returns: return "success"
SaveProfile(u) ==
    /\ pc[u] = "save_profile"
    /\ profile_collection' = save_profile(profile_collection, profile[u])
    /\ Finish(u, "success")
    /\ stages' = [stages EXCEPT ![u] = Append(@, "persist")]
    /\ UNCHANGED <<flow_task, deletes, clock, counts, locals>>
    /\ UNCHANGED fnv

\* update_one raises; the store may or may not have applied the write
SaveProfileRaise(u) ==
    /\ pc[u] = "save_profile"
    /\ \E applied \in BOOLEAN :
          IF applied
          THEN /\ profile_collection' = save_profile(profile_collection, profile[u])
               /\ stages' = [stages EXCEPT ![u] = Append(@, "persist")]
          ELSE UNCHANGED <<profile_collection, stages>>
    /\ Finish(u, "error: save_profile")
    /\ UNCHANGED <<flow_task, deletes, clock, counts, locals>>
    /\ UNCHANGED fnv

\* --------------------------------------------------------------- run(), 2
CountOf(rs, P(_)) == Cardinality({i \in 1..Len(rs) : P(rs[i])})

\* variant: only "success" is told apart, a skip falls into the else branch
TallySkipAsError ==
    /\ run_pc = "gather"
    /\ Len(results) = Len(user_ids)
    /\ success_count' = success_count + CountOf(results, LAMBDA r : r = "success")
    /\ skip_count' = skip_count
    /\ error_count' = error_count + CountOf(results, LAMBDA r : r # "success")
    /\ run_pc' = "done"
    /\ UNCHANGED <<stores, semaphore, user_ids, results, pc, locals, result, stages>>
    /\ UNCHANGED fnv

\* the tally loop over results
Tally ==
    /\ run_pc = "gather"
    /\ Len(results) = Len(user_ids)
    /\ success_count' = success_count + CountOf(results, LAMBDA r : r = "success")
    /\ skip_count' = skip_count + CountOf(results, LAMBDA r : r # "success" /\ r = "skip")
    /\ error_count' = error_count
                        + CountOf(results, LAMBDA r : r # "success" /\ r # "skip")
    /\ run_pc' = "done"
    /\ UNCHANGED <<stores, semaphore, user_ids, results, pc, locals, result, stages>>
    /\ UNCHANGED fnv

\* ------------------------------------------------------------- environment
\* the upstream execution system removes a user's runs from the log store;
\* taken between discovery and the user's fetch, the only time at which the
\* pipeline can observe it
UpstreamDelete(u) ==
    /\ run_pc = "gather"
    /\ pc[u] \in {"pending", "get_user_email", "get_user_flow_tasks"}
    /\ deletes < MaxDeletes
    /\ \E i \in 1..Len(flow_task) : flow_task[i].user_id = u
    /\ flow_task' = SelectSeq(flow_task, LAMBDA d : d.user_id # u)
    /\ deletes' = deletes + 1
    /\ UNCHANGED <<profile_collection, clock, semaphore, runv, counts, pc, locals, result,
                   stages>>
    /\ UNCHANGED fnv

Next ==
    \/ Discover
    \/ DiscoverRaise
    \/ \E u \in Users : Acquire(u)
    \/ \E u \in Users : GetUserEmail(u)
    \/ \E u \in Users : StoreRaise(u)
    \/ \E u \in Users : GetUserFlowTasks(u)
    \/ \E u \in Users : FindMatchingFlow(u)
    \/ \E u \in Users : SaveProfile(u)
    \/ \E u \in Users : SaveProfileRaise(u)
    \/ Tally
    \/ \E u \in Users : UpstreamDelete(u)

Spec == Init /\ [][Next]_vars

\* ============================================================== properties
IsError(r) == r \notin {None, "success", "skip"}

DocsFor(coll, u) == SelectSeq(coll, LAMBDA d : MatchEq(d, "user_id", u))

\* the document of u is as it was when the batch started
Untouched(u) == DocsFor(profile_collection, u) = DocsFor(profile_collection0, u)

ContentKeys ==
    {"user_id", "user_email", "stats", "top_workflows", "ai_profile", "payment_stats"}

\* the profile that u's own fetched record set gives
Expected(u) ==
    BuildProfile(u, get_user_email(u), flow_tasks[u], TopWorkflows(flow_tasks[u], u), 0)

\* u has one document and it carries the profile of u's fetched records
Upserted(u) ==
    LET ds == DocsFor(profile_collection, u)
    IN /\ Len(ds) = 1
       /\ Project(ds[1], ContentKeys) = Project(Expected(u), ContentKeys)

HadEnrichment(u) ==
    LET ds == DocsFor(profile_collection0, u)
    IN ds # <<>> /\ (ds[1].ai_profile # None \/ ds[1].payment_stats # None)

\* C1 (as stated): after process_user has persisted the profile of a user whose
\* document already had a non-null ai_profile or payment_stats, both enrichment
\* slots hold the values they had before the upsert.
C1_EnrichmentKept ==
    \A u \in Users :
        (result[u] = "success" /\ HadEnrichment(u)) =>
            LET before == DocsFor(profile_collection0, u)[1]
                after == DocsFor(profile_collection, u)[1]
            IN /\ after.ai_profile = before.ai_profile
               /\ after.payment_stats = before.payment_stats

\* C2: an exception of one user's store call becomes that user's error result
\* and never reaches run(); when the batch is done every discovered user is
\* terminal, every success has its document upserted from its own records and
\* every skip has left its document alone.
C2_FailureIsolated ==
    /\ run_pc = "raised" => \A u \in Users : pc[u] = "none"
    /\ \A v \in Users : result[v] = "success" => Upserted(v)
    /\ \A v \in Users : result[v] = "skip" => Untouched(v)
    /\ run_pc = "done" =>
          \A v \in Discovered :
              pc[v] = "done" /\ (result[v] \in {"success", "skip"} \/ IsError(result[v]))

C2_Witness ==
    /\ run_pc = "done"
    /\ \E u, v \in Discovered :
          /\ result[u] = "error: get_user_flow_tasks"
          /\ result[v] = "success"
          /\ Upserted(v)

\* C3: the number of users between acquiring a slot and finishing never
\* exceeds the concurrency limit.
C3_AdmissionBound == Cardinality(InFlight) <= Concurrency

C3_Witness ==
    /\ Cardinality(InFlight) = Concurrency
    /\ \E u \in Users : pc[u] = "pending"

\* C4: the semaphore's value plus the number of tasks inside the guarded block
\* is the concurrency limit, so a finished task holds no slot, every slot is
\* free once all tasks are terminal, and a pending task finds a free slot
\* whenever no task is inside the block.
C4_SlotsReleased ==
    /\ semaphore + Cardinality(InFlight) = Concurrency
    /\ (\A u \in Discovered : pc[u] = "done") => semaphore = Concurrency
    /\ ((\E u \in Users : pc[u] = "pending") /\ InFlight = {}) => semaphore > 0

C4_Witness ==
    /\ user_ids # <<>>
    /\ \A u \in Discovered : pc[u] = "done"
    /\ \E u \in Discovered : result[u] = "success"
    /\ \E u \in Discovered : result[u] = "skip"
    /\ \E u \in Discovered : IsError(result[u])
    /\ semaphore = Concurrency

\* u's fetch has returned, with no record
FetchedNothing(u) ==
    /\ \E i \in 1..Len(stages[u]) : stages[u][i] = "fetch"
    /\ flow_tasks[u] = <<>>

\* C5: a user whose fetch returned no record ends in skip and its document, if
\* any, is the one the batch started with; none is created.
C5_EmptyFetchSkips ==
    \A u \in Users :
        FetchedNothing(u) => pc[u] = "done" /\ result[u] = "skip" /\ Untouched(u)

C5_Witness ==
    \E u \in Users :
        /\ FetchedNothing(u)
        /\ result[u] = "skip"
        /\ DocsFor(profile_collection, u) # <<>>

HasRecords(u) == get_user_flow_tasks(flow_task, u) # <<>>

\* the user store has a document of u with a non-empty user_email
HasEmail(u) ==
    \E i \in 1..Len(user_collection) :
        /\ user_collection[i].user_id = u
        /\ "user_email" \in DOMAIN user_collection[i]
        /\ user_collection[i].user_email \notin {None, ""}

FullPipeline == <<"acquire", "fetch", "aggregate", "persist">>

NumWith(P(_)) == Cardinality({u \in Discovered : P(result[u])})

\* C7: when run() has tallied, each discovered user is counted in exactly one
\* tally: the three counts are the numbers of users with that outcome and sum
\* to the number of discovered users.
C7_TallyPartition ==
    run_pc = "done" =>
        /\ success_count = NumWith(LAMBDA r : r = "success")
        /\ skip_count = NumWith(LAMBDA r : r = "skip")
        /\ error_count = NumWith(IsError)
        /\ success_count + skip_count + error_count = Len(user_ids)

C7_Witness ==
    /\ run_pc = "done"
    /\ success_count > 0
    /\ skip_count > 0
    /\ error_count > 0

\* C8: a user's document is either the one the batch started with or one
\* complete profile whose top_workflows and stats come from the same fetched
\* record set; a pipeline that failed before persist left it as it was.
C8_NoPartialWrite ==
    \A u \in Users :
        /\ Untouched(u) \/ Upserted(u)
        /\ (IsError(result[u]) /\ result[u] # "error: save_profile") => Untouched(u)

C8_Witness ==
    /\ \E u \in Users : ~Untouched(u) /\ Upserted(u)
    /\ \E u \in Users : result[u] = "error: find_matching_flow" /\ HadEnrichment(u)

IsPrefix(s, t) == Len(s) <= Len(t) /\ SubSeq(t, 1, Len(s)) = s

\* C9: the stages a user has completed are a prefix of acquire, fetch,
\* aggregate, persist, and a document differs from the initial one only after
\* all four.
C9_StagesOrdered ==
    \A u \in Users :
        /\ IsPrefix(stages[u], FullPipeline)
        /\ ~Untouched(u) => stages[u] = FullPipeline

C9_Witness ==
    \E u \in Users : stages[u] = FullPipeline /\ ~Untouched(u) /\ Len(top_workflows[u]) > 1

\* C10: once a profile is persisted, persisting the same profile again leaves
\* the collection as it is, with one document for the user.
C10_SaveIdempotent ==
    \A u \in Users :
        result[u] = "success" =>
            /\ save_profile(profile_collection, profile[u]) = profile_collection
            /\ Cardinality(MatchingDocs(profile_collection, u)) = 1

C10_Witness ==
    /\ \E u \in Users : result[u] = "success" /\ DocsFor(profile_collection0, u) # <<>>
    /\ \E u \in Users : result[u] = "success" /\ DocsFor(profile_collection0, u) = <<>>

\* =========================================== generate_workflow_signature
\* The function applied on its own to node lists drawn from a bounded set,
\* then to the same nodes reordered, renamed and with other payloads.
MaxNodes == 3

SigNodeKinds ==
    {[id |-> "a", type |-> "imageInput"],
     [id |-> "b", type |-> "textInput", data |-> [inputText |-> "hi"]],
     [id |-> "c"],
     [id |-> "d", type |-> None],
     [id |-> "e", type |-> "empty"],
     [id |-> "f", type |-> "unknown"]}

SigNodeLists ==
    {NoneList} \cup UNION {[1..n -> SigNodeKinds] : n \in 0..MaxNodes}

InitSig ==
    /\ fn = "signature:call"
    /\ arg \in SigNodeLists
    /\ ret = ""
    /\ ret0 = ""
    /\ flow_task = flow_task0
    /\ Constructed

\* the outcome of generate_workflow_signature(nodes): raised or returned
SigOutcome(nodes) ==
    IF generate_workflow_signature(nodes) = TypeError
    THEN "signature:raise" ELSE "signature:return"

SigApply ==
    /\ fn = "signature:call"
    /\ fn' = SigOutcome(arg)
    /\ ret' = generate_workflow_signature(arg)
    /\ ret0' = ret'
    /\ UNCHANGED <<arg, batch>>

\* the same nodes with two neighbours exchanged
SigSwap(i) ==
    /\ fn \in {"signature:return", "signature:raise"}
    /\ arg # NoneList
    /\ i \in 1..(Len(arg) - 1)
    /\ arg' = [arg EXCEPT ![i] = arg[i + 1], ![i + 1] = arg[i]]
    /\ fn' = SigOutcome(arg')
    /\ ret' = generate_workflow_signature(arg')
    /\ UNCHANGED <<ret0, batch>>

\* the same nodes, one with another identifier and another payload
SigRewire(i) ==
    /\ fn \in {"signature:return", "signature:raise"}
    /\ arg # NoneList
    /\ i \in 1..Len(arg)
    /\ arg[i].id # "z"
    /\ arg' = [arg EXCEPT ![i] =
                 [k \in DOMAIN arg[i] \cup {"data"} |->
                    IF k = "id" THEN "z"
                    ELSE IF k = "data" THEN [label |-> "other", results |-> "r"]
                    ELSE arg[i][k]]]
    /\ fn' = SigOutcome(arg')
    /\ ret' = generate_workflow_signature(arg')
    /\ UNCHANGED <<ret0, batch>>

NextSig ==
    \/ SigApply
    \/ \E i \in 1..MaxNodes : SigSwap(i)
    \/ \E i \in 1..MaxNodes : SigRewire(i)

SpecSig == InitSig /\ [][NextSig]_vars

HasType(node) == "type" \in DOMAIN node /\ node.type # None

\* number of nodes of arg whose type is the string t
NumOfType(t) == Cardinality({i \in 1..Len(arg) : HasType(arg[i]) /\ arg[i].type = t})

\* "type:count" for the types of names that occur in arg, in the order of names
RECURSIVE Entries(_)
Entries(names) ==
    IF names = <<>> THEN <<>>
    ELSE (IF NumOfType(names[1]) > 0
          THEN <<names[1] \o ":" \o ToString(NumOfType(names[1]))>> ELSE <<>>)
         \o Entries(Tail(names))

AllTyped == arg # NoneList /\ arg # <<>> /\ \A i \in 1..Len(arg) : HasType(arg[i])

\* C11: the signature is the same for every reordering, renaming and change of
\* payload of the same nodes, and for nodes that all carry a type it is the
\* list of type:count entries in ascending order of the type name.
C11_SignatureOfMultiset ==
    /\ fn \in {"signature:return", "signature:raise"} => ret = ret0
    /\ (fn = "signature:return" /\ AllTyped) => ret = Join(",", Entries(StrOrder))

C11_Witness ==
    /\ fn = "signature:return"
    /\ Len(arg) = 3
    /\ arg[1].id = "z" /\ arg[2].id = "z"
    /\ ret = "imageInput:2,textInput:1"
    /\ HasType(arg[1]) /\ arg[1].type = "textInput"

\* C12: the empty list gives "empty" and no list with a node gives "empty",
\* a node of type "empty" included.
C12_EmptySentinel ==
    /\ (fn = "signature:return" /\ arg = <<>>) => ret = "empty"
    /\ (fn # "signature:call" /\ arg # <<>> /\ arg # NoneList) => ret # "empty"

C12_Witness ==
    /\ fn = "signature:return"
    /\ Len(arg) = 1
    /\ HasType(arg[1]) /\ arg[1].type = "empty"
    /\ ret = "empty:1"

NoneTyped == arg # NoneList /\ arg # <<>> /\ \A i \in 1..Len(arg) : ~HasType(arg[i])

\* C13 (as stated): nodes whose type is missing or null are counted under
\* "unknown".
C13_NullTypeIsUnknown ==
    (fn # "signature:call" /\ NoneTyped) => ret = "unknown:" \o ToString(Len(arg))

\* C14 (as stated): generate_workflow_signature returns a string for every
\* node list.
C14_SignatureNeverRaises == fn # "signature:raise"

\* ================================================== the aggregation alone
\* generate_user_profile from the fetched records on: the loop over
\* flow_tasks, the sort, the slice and the loop over ranks, applied to record
\* lists drawn from a bounded set.
MaxTasks == 3

\* nodes with a null type next to a string type
NodesMixed == <<[id |-> "x1", type |-> None], [id |-> "x2", type |-> "textInput"]>>

TaskKinds == {"A", "A2", "B", "nil", "null", "absent", "mixed"}

\* the k-th fetched record, of the given kind
TaskOfKind(kind, k) ==
    LET t == CASE kind = "A" -> FlowTask("u1", k, NodesA, EdgesA, Dt(3, k))
               [] kind = "A2" -> FlowTask("u1", k, NodesA2, <<>>, Dt(3, k))
               [] kind = "B" -> FlowTask("u1", k, NodesB, <<>>, Dt(3, k))
               [] kind = "nil" -> FlowTask("u1", k, <<>>, EdgesA, Dt(3, k))
               [] kind = "null" -> FlowTask("u1", k, NoneList, NoneList, Dt(3, k))
               [] kind = "absent" -> FlowTask("u1", k, <<>>, <<>>, Dt(3, k))
               [] OTHER -> FlowTask("u1", k, NodesMixed, <<>>, Dt(3, k))
    IN Project(t, {"flow_task_id", "status", "cost", "created_at"}
                  \cup (IF kind = "absent" THEN {} ELSE {"nodes", "edges"}))

SmallTaskLists ==
    UNION {{[k \in 1..n |-> TaskOfKind(kinds[k], k)] : kinds \in [1..n -> TaskKinds]}
           : n \in 0..MaxTasks}

\* more signatures than top_n: the k-th signature is "textInput:k"
NumSigs == top_n + 2

NodesOfSize(k) == [i \in 1..k |-> NodesB[1]]

TasksOfSizes(sizes) ==
    [k \in 1..Len(sizes) |-> Project(FlowTask("u1", k, NodesOfSize(sizes[k]), <<>>, Dt(3, k)),
                                     {"flow_task_id", "nodes", "edges", "status",
                                      "cost", "created_at"})]

LargeTaskLists ==
    {TasksOfSizes([k \in 1..NumSigs |-> IF up THEN k ELSE NumSigs + 1 - k] \o extra) :
        up \in BOOLEAN, extra \in {<<>>} \cup {<<d>> : d \in 1..NumSigs}}

InitAgg ==
    /\ fn = "aggregate:call"
    /\ arg \in SmallTaskLists \cup LargeTaskLists
    /\ ret = <<>>
    /\ ret0 = <<>>
    /\ flow_task = flow_task0
    /\ Constructed

\* an exception leaves the aggregation: from the signature in the loop over
\* records, from find_matching_flow or from the sanitizer in the loop over ranks
AggRaises(tasks) ==
    \/ AggregateRaises(tasks)
    \/ \E r \in 1..Len(sorted_workflows(tasks)) :
          \/ find_matching_flow(sorted_workflows(tasks)[r].signature, "u1") = FlowInfoError
          \/ TopologyRaises(sorted_workflows(tasks)[r].sample_nodes)

AggApply ==
    /\ fn = "aggregate:call"
    /\ IF FalsyList(arg)
       THEN fn' = "aggregate:none" /\ ret' = <<>>
       ELSE IF AggRaises(arg)
       THEN fn' = "aggregate:raise" /\ ret' = <<>>
       ELSE fn' = "aggregate:return" /\ ret' = TopWorkflows(arg, "u1")
    /\ ret0' = ret'
    /\ UNCHANGED <<arg, batch>>

NextAgg == AggApply

SpecAgg == InitAgg /\ [][NextAgg]_vars

SigOfTask(task) == generate_workflow_signature(Get(task, "nodes", <<>>))

\* the records of arg with the signature sig, and the first of them
TasksWith(sig) == {k \in 1..Len(arg) : SigOfTask(arg[k]) = sig}
FirstWith(sig) == CHOOSE k \in TasksWith(sig) : \A j \in TasksWith(sig) : k <= j

\* C15: top_workflows is no longer than top_n and no longer than the number
\* of distinct signatures among the fetched records.
C15_TopNBound ==
    fn = "aggregate:return" =>
        /\ Len(ret) <= top_n
        /\ Len(ret) <= Cardinality({SigOfTask(arg[k]) : k \in 1..Len(arg)})

C15_Witness ==
    /\ fn = "aggregate:return"
    /\ Len(arg) > top_n
    /\ Len(ret) = top_n

\* C16: run_count does not increase along top_workflows and the entry at
\* position i has rank i.
C16_SortedAndRanked ==
    fn = "aggregate:return" =>
        /\ \A i \in 1..Len(ret) : ret[i].rank = i
        /\ \A i, j \in 1..Len(ret) : i < j => ret[i].run_count >= ret[j].run_count

C16_Witness ==
    /\ fn = "aggregate:return"
    /\ Len(ret) = top_n
    /\ ret[1].run_count = 2 /\ ret[1].rank = 1
    /\ ret[2].run_count = 1 /\ ret[2].rank = 2

\* C17: entries with equal run_count stand in the order in which their
\* signatures were first seen, and a signature left out by the cut at top_n
\* has a smaller count than every entry kept, or the same count and a later
\* first record.
C17_TiesFirstSeen ==
    fn = "aggregate:return" =>
        /\ \A i, j \in 1..Len(ret) :
              (i < j /\ ret[i].run_count = ret[j].run_count)
                 => FirstWith(ret[i].signature) < FirstWith(ret[j].signature)
        /\ \A k \in 1..Len(arg), i \in 1..Len(ret) :
              (\A j \in 1..Len(ret) : ret[j].signature # SigOfTask(arg[k]))
                 => \/ Cardinality(TasksWith(SigOfTask(arg[k]))) < ret[i].run_count
                    \/ /\ Cardinality(TasksWith(SigOfTask(arg[k]))) = ret[i].run_count
                       /\ FirstWith(SigOfTask(arg[k])) > FirstWith(ret[i].signature)

C17_Witness ==
    /\ fn = "aggregate:return"
    /\ Len(arg) = NumSigs
    /\ Len(ret) = top_n
    /\ ret[top_n].run_count = 1
    /\ ret[top_n].signature = SigOfTask(arg[top_n])
    /\ ret[1].signature = SigOfTask(arg[1])

\* C18 (as stated): the representative of an entry is the first fetched record
\* with its signature, also when that record's nodes are null or absent.
C18_FirstRepresentative ==
    fn = "aggregate:return" =>
        \A i \in 1..Len(ret) :
            LET first == arg[FirstWith(ret[i].signature)]
            IN /\ ret[i].flow_task_id = first.flow_task_id
               /\ ret[i].topology =
                     clean_workflow_topology(Get(first, "nodes", <<>>),
                                             Get(first, "edges", <<>>))

\* C19: run_count is the number of fetched records with the entry's
\* signature, it is at least 1, and the representative has that signature.
C19_CountPerSignature ==
    fn = "aggregate:return" =>
        \A i \in 1..Len(ret) :
            /\ ret[i].run_count = Cardinality(TasksWith(ret[i].signature))
            /\ ret[i].run_count >= 1
            /\ \E k \in TasksWith(ret[i].signature) :
                  arg[k].flow_task_id = ret[i].flow_task_id

C19_Witness ==
    /\ fn = "aggregate:return"
    /\ Len(arg) = 3
    /\ Len(ret) = 2
    /\ ret[1].signature = "imageInput:1,imageMaker:1"
    /\ ret[1].run_count = 2 /\ ret[1].rank = 1
    /\ ret[2].signature = "textInput:1"
    /\ ret[2].run_count = 1 /\ ret[2].rank = 2

\* ================================================== clean_node_data alone
\* The sanitizer of one node, applied to nodes drawn from a bounded set: every
\* type case with every payload case.
SourceKeys ==
    {"label", "inputText", "selectedModels", "selectedVoice", "aspectRatio",
     "results", "model_options", "imageUrl"}

\* the payload with the given keys
PayloadOf(keys) == [k \in keys |-> "v:" \o k]

\* a type that is absent, null, or a string
NodeTypeCases ==
    {"absent", None, "unknown", "imageMaker", "videoMaker"} \cup INPUT_NODE_TYPES

\* a node without a data field
BareNode(type) ==
    IF type = "absent" THEN [id |-> "n1"] ELSE [id |-> "n1", type |-> type]

NodeWithData(type, data) ==
    [k \in DOMAIN BareNode(type) \cup {"data"} |->
        IF k = "data" THEN data ELSE BareNode(type)[k]]

\* the payload is absent, null, or a dict over any subset of SourceKeys
CleanNodes ==
    {BareNode(t) : t \in NodeTypeCases}
      \cup {NodeWithData(t, NoneDict) : t \in NodeTypeCases}
      \cup {NodeWithData(t, PayloadOf(keys)) : t \in NodeTypeCases, keys \in SUBSET SourceKeys}

InitClean ==
    /\ fn = "clean:call"
    /\ arg \in CleanNodes
    /\ ret = EmptyDict
    /\ ret0 = EmptyDict
    /\ flow_task = flow_task0
    /\ Constructed

CleanApply ==
    /\ fn = "clean:call"
    /\ IF CleanNodeRaises(arg)
       THEN fn' = "clean:raise" /\ ret' = EmptyDict
       ELSE fn' = "clean:return" /\ ret' = clean_node_data(arg)
    /\ ret0' = ret'
    /\ UNCHANGED <<arg, batch>>

NextClean == CleanApply

SpecClean == InitClean /\ [][NextClean]_vars

IsInputNode(node) == HasType(node) /\ node.type \in INPUT_NODE_TYPES

\* the source payload's field, null when the payload or the field is missing
SourceField(node, k) ==
    IF "data" \in DOMAIN node /\ node.data # NoneDict /\ k \in DOMAIN node.data
    THEN node.data[k] ELSE None

\* C20 (as stated): for every node that is not of an input type the payload
\* produced has exactly the keys prompt, selectedModels, selectedVoice and
\* aspectRatio; prompt is the source's inputText and a missing source field
\* gives null.
C20_FixedSchema ==
    (fn # "clean:call" /\ ~IsInputNode(arg)) =>
        /\ fn = "clean:return"
        /\ DOMAIN ret.data = {"prompt", "selectedModels", "selectedVoice", "aspectRatio"}
        /\ ret.data.prompt = SourceField(arg, "inputText")
        /\ ret.data.selectedModels = SourceField(arg, "selectedModels")
        /\ ret.data.selectedVoice = SourceField(arg, "selectedVoice")
        /\ ret.data.aspectRatio = SourceField(arg, "aspectRatio")

\* the source payload of a node as a dict: empty when the node has none
SourcePayload(node) == IF "data" \in DOMAIN node THEN node.data ELSE EmptyDict

MaxElems == 2

\* {"$ifNull": ["$$d.k", default]}: the default for a missing or null field
IfNull(d, k, default) ==
    IF k \in DOMAIN d /\ d[k] # None THEN d[k] ELSE default

\* "$$n.data": the payload as a dict, empty when it is missing or null
DataOrEmpty(n) ==
    IF "data" \in DOMAIN n /\ n.data # NoneDict THEN n.data ELSE EmptyDict

\* the "in" document of the $map over nodes: a field whose expression is
\* missing ("$$n.id", "$$n.type") is left out of the document
ProjectNode(n) ==
    LET is_input == "type" \in DOMAIN n /\ n.type \in INPUT_NODE_TYPES
        data == DataOrEmpty(n)
    IN [k \in {"label", "isInputNode", "data"} \cup (DOMAIN n \cap {"id", "type"}) |->
          CASE k = "label" -> IfNull(data, "label", None)
            [] k = "isInputNode" -> is_input
            [] k = "data" ->
                 IF is_input
                 THEN [j \in DOMAIN data \ {"results", "model_options"} |-> data[j]]
                 ELSE [prompt |-> IfNull(data, "inputText", None),
                       selectedModels |-> IfNull(data, "selectedModels", None),
                       selectedVoice |-> IfNull(data, "selectedVoice", None),
                       aspectRatio |-> IfNull(data, "aspectRatio", None)]
            [] OTHER -> n[k]]

\* the "in" document of the $map over edges
ProjectEdge(e) ==
    [k \in DOMAIN e \cap {"id", "source", "target", "sourceHandle", "targetHandle"} |-> e[k]]

\* {"$ifNull": ["$nodes", []]}
ListOrEmpty(record, k) ==
    IF k \in DOMAIN record /\ record[k] # NoneList THEN record[k] ELSE <<>>

\* the nodes and edges of the document get_workflow_topology_data returns
get_workflow_topology_data(record) ==
    [nodes |-> [i \in 1..Len(ListOrEmpty(record, "nodes")) |->
                  ProjectNode(ListOrEmpty(record, "nodes")[i])],
     edges |-> [i \in 1..Len(ListOrEmpty(record, "edges")) |->
                  ProjectEdge(ListOrEmpty(record, "edges")[i])]]

TopoNodes ==
    {BareNode(t) : t \in {"absent", None, "imageInput", "imageMaker"}}
      \cup {NodeWithData(t, d) : t \in {"absent", None, "imageInput", "imageMaker"},
                                 d \in {NoneDict,
                                        PayloadOf({"label", "inputText", "results",
                                                   "imageUrl"})}}

TopoEdges ==
    {EdgesA[1],
     [id |-> "e2", source |-> "n1", target |-> "n2"],
     [id |-> "e3", source |-> "n2", target |-> "n1", sourceHandle |-> None,
      targetHandle |-> "in", animated |-> "yes"]}

\* the lists of at most MaxElems elements of S, and the null list
ListsOf(S) == {NoneList} \cup UNION {[1..n -> S] : n \in 0..MaxElems}

\* execution records: nodes and edges each a list, null, or absent
TopoRecords ==
    {[flow_task_id |-> "t1", nodes |-> ns, edges |-> es] :
        ns \in ListsOf(TopoNodes), es \in ListsOf(TopoEdges)}
      \cup {[flow_task_id |-> "t1", nodes |-> ns] : ns \in ListsOf(TopoNodes)}
      \cup {[flow_task_id |-> "t1", edges |-> es] : es \in ListsOf(TopoEdges)}
      \cup {[flow_task_id |-> "t1"]}

AttributeError == [raised |-> "AttributeError"]

InitTopo ==
    /\ fn = "topology:call"
    /\ arg \in TopoRecords
    /\ ret = EmptyDict
    /\ ret0 = EmptyDict
    /\ flow_task = flow_task0
    /\ Constructed

\* generation time: clean_workflow_topology on the record's lists, as
\* generate_user_profile reads them from the record
TopoClean ==
    /\ fn = "topology:call"
    /\ LET nodes == Get(arg, "nodes", <<>>)
           edges == Get(arg, "edges", <<>>)
       IN ret' = IF TopologyRaises(nodes) THEN AttributeError
                 ELSE clean_workflow_topology(nodes, edges)
    /\ fn' = "topology:cleaned"
    /\ UNCHANGED <<arg, ret0, batch>>

\* re-derivation: the projection of the same record
TopoRederive ==
    /\ fn = "topology:cleaned"
    /\ ret0' = get_workflow_topology_data(arg)
    /\ fn' = "topology:rederived"
    /\ UNCHANGED <<arg, ret, batch>>

NextTopo == TopoClean \/ TopoRederive

SpecTopo == InitTopo /\ [][NextTopo]_vars

InNodes == IF "nodes" \in DOMAIN arg /\ arg.nodes # NoneList THEN arg.nodes ELSE <<>>
InEdges == IF "edges" \in DOMAIN arg /\ arg.edges # NoneList THEN arg.edges ELSE <<>>

NoPayload(node) == "data" \notin DOMAIN node \/ node.data = NoneDict

\* C22 (as stated): clean_workflow_topology raises on no record; a node
\* without a type (missing or null) comes out with type "unknown", and a node
\* without a payload (missing or null) comes out with null data fields.
C22_NeverRaises ==
    fn # "topology:call" =>
        /\ ret # AttributeError
        /\ \A i \in 1..Len(InNodes) :
              /\ ~HasType(InNodes[i]) => ret.nodes[i].type = "unknown"
              /\ NoPayload(InNodes[i]) =>
                    /\ ret.nodes[i].label = None
                    /\ \A k \in DOMAIN ret.nodes[i].data : ret.nodes[i].data[k] = None

EdgeKeys == {"id", "source", "target", "sourceHandle", "targetHandle"}

\* C23: a topology that is returned has one node per input node and one edge
\* per input edge, in the input's order, and every edge carries the five
\* fields of its input edge unchanged.
C23_NothingFabricated ==
    (fn # "topology:call" /\ ret # AttributeError) =>
        /\ Len(ret.nodes) = Len(InNodes)
        /\ \A i \in 1..Len(InNodes) :
              /\ ret.nodes[i].id = InNodes[i].id
              /\ HasType(InNodes[i]) => ret.nodes[i].type = InNodes[i].type
              /\ ret.nodes[i].label =
                    (IF "label" \in DOMAIN SourcePayload(InNodes[i])
                     THEN SourcePayload(InNodes[i]).label ELSE None)
        /\ Len(ret.edges) = Len(InEdges)
        /\ \A i \in 1..Len(InEdges) :
              /\ DOMAIN ret.edges[i] = EdgeKeys
              /\ \A k \in EdgeKeys :
                    ret.edges[i][k] = (IF k \in DOMAIN InEdges[i] THEN InEdges[i][k] ELSE None)

C23_Witness ==
    /\ fn = "topology:cleaned"
    /\ ret # AttributeError
    /\ Len(InNodes) = MaxElems /\ Len(ret.nodes) = MaxElems
    /\ HasType(InNodes[1]) /\ ~HasType(InNodes[2])
    /\ Len(InEdges) = MaxElems /\ Len(ret.edges) = MaxElems
    /\ ret.edges[1].id = "e2" /\ ret.edges[2].id = "e1"

\* C24 (as stated): the nodes and edges of clean_workflow_topology equal the
\* nodes and edges of get_workflow_topology_data for the same record.
C24_SameAsRederived ==
    fn = "topology:rederived" =>
        /\ ret # AttributeError
        /\ ret.nodes = ret0.nodes
        /\ ret.edges = ret0.edges

\* ------------------------------------------------- the batch, continued
\* the calendar dates of the records fetched for u
FetchedDates(u) == {flow_tasks[u][i].created_at.day : i \in 1..Len(flow_tasks[u])}

\* C25: in a persisted profile total_runs is the number of records fetched for
\* the user and active_days the number of distinct calendar dates of their
\* timestamps, which is at least 1 and at most total_runs.
C25_StatsOfFetched ==
    \A u \in Users :
        stages[u] = FullPipeline =>
            LET stats == DocsFor(profile_collection, u)[1].stats
            IN /\ stats.total_runs = Len(flow_tasks[u])
               /\ stats.active_days = Cardinality(FetchedDates(u))
               /\ 1 <= stats.active_days
               /\ stats.active_days <= stats.total_runs

C25_Witness ==
    \E u \in Users :
        /\ stages[u] = FullPipeline
        /\ DocsFor(profile_collection, u)[1].stats.total_runs = 3
        /\ DocsFor(profile_collection, u)[1].stats.active_days = 2

\* ===================================================== the profile store
\* The writers of the profile collection next to each other: the pipeline's
\* process_user and the three enrichment handlers of analyze_profile.py,
\* update_payment_stats.py and add_payment_amount.py, in any order.
MaxWrites == 3

\* the batch of generate_profile.py is not running
pipeline_idle == <<flow_task, deletes, semaphore, runv, counts, pc, locals, result, stages>>

InitEnrich ==
    /\ fn = "none"
    /\ arg = ""
    /\ ret = ""
    /\ ret0 = profile_collection0
    /\ flow_task = flow_task0
    /\ Constructed

\* update_one(filter, {"$set": set}) on the document at index i
update_one(coll, i, set) == [coll EXCEPT ![i] = SetFields(@, set)]

\* the first document of the user, as update_one({"user_id": ...}) finds it
FirstDoc(coll, u) == CHOOSE i \in MatchingDocs(coll, u) : \A j \in MatchingDocs(coll, u) : i <= j

\* what every writer does besides its write
Wrote(name, u) ==
    /\ clock <= MaxWrites
    /\ clock' = clock + 1
    /\ fn' = name
    /\ arg' = u
    /\ ret' = "success"
    /\ ret0' = profile_collection
    /\ UNCHANGED pipeline_idle

\* process_user for a user with an email and records: profile built, upserted
Regenerate(u) ==
    /\ LET email == get_user_email(u)
           tasks == get_user_flow_tasks(flow_task, u)
       IN /\ ~FalsyStr(email)
          /\ ~FalsyList(tasks)
          /\ ~AggregateRaises(tasks)
          /\ profile_collection' =
                save_profile(profile_collection,
                             BuildProfile(u, email, tasks, TopWorkflows(tasks, u), clock))
    /\ Wrote("process_user", u)

\* AIProfileAnalyzer.analyze_user: the analysis succeeded
AnalyzeUser(u) ==
    /\ MatchingDocs(profile_collection, u) # {}
    /\ LET i == FirstDoc(profile_collection, u)
       IN /\ Get(profile_collection[i], "top_workflows", <<>>) # <<>>
          /\ profile_collection' =
                update_one(profile_collection, i,
                           [ai_profile |-> "ai:gemini-2.0-flash@" \o ToString(clock),
                            updated_at |-> clock])
    /\ Wrote("analyze_user", u)

\* variant: the update also resets top_workflows
UpdateUserPaymentStatsReset(i) ==
    /\ i \in 1..Len(profile_collection)
    /\ profile_collection' =
          update_one(profile_collection, i,
                     [payment_stats |-> "pay:@" \o ToString(clock),
                      top_workflows |-> <<>>])
    /\ Wrote("update_user_payment_stats", profile_collection[i].user_id)

\* PaymentStatsUpdater.update_user_payment_stats on the document loaded at i
UpdateUserPaymentStats(i) ==
    /\ i \in 1..Len(profile_collection)
    /\ profile_collection' =
          update_one(profile_collection, i, [payment_stats |-> "pay:@" \o ToString(clock)])
    /\ Wrote("update_user_payment_stats", profile_collection[i].user_id)

\* PaymentAmountUpdater.update_user_payment_amount on the document loaded at
\* i: "stats.total_paid_amount" sets one key inside stats
UpdateUserPaymentAmount(i) ==
    /\ i \in 1..Len(profile_collection)
    /\ profile_collection' =
          update_one(profile_collection, i,
                     [stats |-> SetFields(Get(profile_collection[i], "stats", EmptyDict),
                                          [total_paid_amount |-> 10 * clock]),
                      updated_at |-> clock])
    /\ Wrote("update_user_payment_amount", profile_collection[i].user_id)

NextEnrich ==
    \/ \E u \in Users : Regenerate(u)
    \/ \E u \in Users : AnalyzeUser(u)
    \/ \E i \in 1..NumUsers : UpdateUserPaymentStats(i)
    \/ \E i \in 1..NumUsers : UpdateUserPaymentAmount(i)

SpecEnrich == InitEnrich /\ [][NextEnrich]_vars

EnrichmentWriters ==
    {"analyze_user", "update_user_payment_stats", "update_user_payment_amount"}

\* the keys the last writer may set
WrittenKeys ==
    CASE fn = "analyze_user" -> {"ai_profile", "updated_at"}
      [] fn = "update_user_payment_stats" -> {"payment_stats"}
      [] fn = "update_user_payment_amount" -> {"stats", "updated_at"}
      [] OTHER -> {}

\* C26: an enrichment write changes the document of its user only, and in it
\* only the keys it sets: top_workflows, user_id and user_email are as they
\* were, and a write to stats changes nothing but total_paid_amount.
C26_EnrichmentFrame ==
    fn \in EnrichmentWriters =>
        /\ Len(profile_collection) = Len(ret0)
        /\ \A i \in 1..Len(ret0) :
              LET before == ret0[i]
                  after == profile_collection[i]
              IN /\ before.user_id # arg => after = before
                 /\ after.top_workflows = before.top_workflows
                 /\ after.user_id = before.user_id
                 /\ after.user_email = before.user_email
                 /\ \A k \in DOMAIN before \ WrittenKeys : after[k] = before[k]
                 /\ \A k \in DOMAIN before.stats \ {"total_paid_amount"} :
                       after.stats[k] = before.stats[k]

C26_Witness ==
    /\ fn = "update_user_payment_amount"
    /\ \E i \in 1..Len(profile_collection) :
          /\ profile_collection[i].user_id = arg
          /\ profile_collection[i].stats.total_paid_amount > 0
          /\ profile_collection[i].ai_profile \notin {None, "ai:creator"}
          /\ profile_collection[i].payment_stats \notin {None, "pay:pro"}
          /\ profile_collection[i].top_workflows # <<>>

\* C30: after process_user has persisted a user again, the document's stats
\* are those of the new profile, without total_paid_amount, and created_at is
\* the time of this run.
C30_UpsertReplacesStats ==
    fn = "process_user" =>
        LET doc == DocsFor(profile_collection, arg)[1]
        IN /\ DOMAIN doc.stats = {"total_runs", "active_days", "period"}
           /\ doc.created_at = clock - 1
           /\ doc.updated_at = doc.created_at

C30_Witness ==
    /\ fn = "process_user"
    /\ DocsFor(ret0, arg) # <<>>
    /\ "total_paid_amount" \in DOMAIN DocsFor(ret0, arg)[1].stats
    /\ DocsFor(ret0, arg)[1].created_at < DocsFor(profile_collection, arg)[1].created_at
    /\ "total_paid_amount" \notin DOMAIN DocsFor(profile_collection, arg)[1].stats

\* ------------------------------------------------- the batch, continued
\* the outcome of u's task as the stores alone decide it, when nothing raises
OutcomeOf(u) == IF HasEmail(u) /\ HasRecords(u) THEN "success" ELSE "skip"

\* the profile of u as the stores alone decide it
ProfileOf(u) ==
    LET tasks == get_user_flow_tasks(flow_task, u)
    IN BuildProfile(u, get_user_email(u), tasks, TopWorkflows(tasks, u), 0)

\* C27: a task that has not persisted has left its user's document alone
\* whatever the other tasks did; and with the log store left as it was, every
\* task that raised nothing ended as the stores alone decide, whatever the
\* order of the steps: the same outcome, the same top_workflows and stats in
\* the user's document, and with no failure at all the same tally.
C27_OrderIndependent ==
    /\ \A u \in Users : stages[u] # FullPipeline => Untouched(u)
    /\ (run_pc = "done" /\ deletes = 0) =>
          /\ \A u \in Discovered :
                ~IsError(result[u]) =>
                    /\ result[u] = OutcomeOf(u)
                    /\ result[u] = "skip" => Untouched(u)
                    /\ result[u] = "success" => DocsFor(profile_collection, u) # <<>>
                    /\ result[u] = "success" =>
                          LET doc == DocsFor(profile_collection, u)[1]
                          IN /\ doc.top_workflows = ProfileOf(u).top_workflows
                             /\ doc.stats = ProfileOf(u).stats
          /\ (\A u \in Discovered : ~IsError(result[u])) =>
                /\ success_count = Cardinality({u \in Discovered : OutcomeOf(u) = "success"})
                /\ skip_count = Cardinality({u \in Discovered : OutcomeOf(u) = "skip"})
                /\ error_count = 0

C27_Witness ==
    /\ run_pc = "done"
    /\ deletes = 0
    /\ Len(results) = NumUsers
    /\ results[1] = "skip"
    /\ success_count = 2
    /\ skip_count = 1
    /\ \E u \in Discovered : ~Untouched(u) /\ Len(DocsFor(profile_collection, u)[1].top_workflows) > 1

\* C28: when discovery has raised, run() has ended with no task started, no
\* document written and the tallies at zero; when discovery has found no user,
\* run() has returned with no task started and nothing written either.
C28_DiscoveryFailureIsFatal ==
    run_pc \in {"raised", "returned"} =>
        /\ run_pc = "returned" => user_ids = <<>>
        /\ \A u \in Users : pc[u] = "none" /\ stages[u] = <<>> /\ result[u] = None
        /\ results = <<>>
        /\ profile_collection = profile_collection0
        /\ success_count = 0 /\ skip_count = 0 /\ error_count = 0
        /\ semaphore = Concurrency

C28_Witness ==
    /\ run_pc = "raised"
    /\ get_users_with_runs_in_range(flow_task) # <<>>
    /\ profile_collection # <<>>

\* ---------------------------------------------------- the batch, fairly
\* one step of u's task inside the guarded block: the store call it awaits
\* returns or raises
StoreStep(u) ==
    \/ GetUserEmail(u)
    \/ StoreRaise(u)
    \/ GetUserFlowTasks(u)
    \/ FindMatchingFlow(u)
    \/ SaveProfile(u)
    \/ SaveProfileRaise(u)

\* a step of run() or of one of its tasks (every step but the environment's)
BatchStep ==
    \/ Discover
    \/ DiscoverRaise
    \/ \E u \in Users : Acquire(u)
    \/ \E u \in Users : StoreStep(u)
    \/ Tally

\* ENABLED <<BatchStep>>_vars, from the guards of the steps: discovery can
\* return or raise; a pending task can take a free slot; a task inside the
\* guarded block awaits a store call, which can return or raise; the tally
\* can run once every result is in
CanStep ==
    \/ run_pc = "start"
    \/ /\ run_pc = "gather"
       /\ \/ \E u \in Users : pc[u] = "pending" /\ semaphore > 0
          \/ \E u \in Users : pc[u] \in Holding
          \/ Len(results) = Len(user_ids)

\* WF_vars(BatchStep) written out, with CanStep for ENABLED <<BatchStep>>_vars:
\* the event loop runs some task that can run, and an awaited store call
\* returns or raises.  A run takes finitely many steps, so this is all the
\* fairness the tasks need: no task is preferred.
Fairness == []<>(~CanStep) \/ []<><<BatchStep>>_vars

FairSpec == Spec /\ Fairness

Terminal(u) == pc[u] = "done" /\ (result[u] \in {"success", "skip"} \/ IsError(result[u]))

\* C29: under the fair scheduler every discovered user's task gets a slot and
\* ends in one outcome (success, skip or error) that it keeps; a task never
\* goes back to waiting and its fetch is awaited once only, so nothing is
\* retried; and the batch reaches its tally.
C29_EveryTaskEnds ==
    /\ (run_pc = "gather")
          ~> (run_pc = "done" /\ \A u \in Discovered : Terminal(u))
    /\ [][\A u \in Users :
            /\ pc[u] = "done" => (pc'[u] = "done" /\ result'[u] = result[u])
            /\ pc'[u] = "pending" => pc[u] \in {"none", "pending"}
            /\ pc'[u] = "get_user_flow_tasks"
                  => pc[u] \in {"get_user_email", "get_user_flow_tasks"}
            /\ IsPrefix(stages[u], stages'[u])]_vars

C29_Witness ==
    /\ run_pc = "done"
    /\ Len(user_ids) > Concurrency
    /\ \A u \in Discovered : Terminal(u)
    /\ \E u \in Discovered : result[u] = "error: get_user_flow_tasks"
    /\ \E u \in Discovered : result[u] = "success"

====
